---- MODULE Spec2Model ----
(***************************************************************************)
(* Model of the bill-processor Cloudflare Worker (src/src/index.js).       *)
(*                                                                         *)
(* One request is followed from the entry of fetch() to its Response.      *)
(* JavaScript runs to completion between awaits, so the handler has one    *)
(* action per synchronous stretch:                                         *)
(*   FetchStart              lines 65-92, up to `await request.json()`     *)
(*   RequestJsonSettles      lines 92-108, up to `await generateContent`   *)
(*   GenerateContentResolves lines 151-176 and 108-118                     *)
(*   GenerateContentRejects  lines 151, 177-180 and 122-125                *)
(*                                                                         *)
(* Strings are sequences of tokens.  Each token stands for a fixed piece   *)
(* of text, and the alphabets are chosen so that an occurrence of one of   *)
(* the program's literals in the concatenated text is an occurrence of     *)
(* its token (no literal straddles two tokens), which makes includes,      *)
(* startsWith and the two regular expressions exact on token sequences.    *)
(***************************************************************************)
EXTENDS Integers, Sequences, FiniteSets, TLC

VARIABLES request, pc, bodyReads, calls, reply, response

vars == <<request, pc, bodyReads, calls, reply, response>>

\* ------------------------------------------------------------------ bounds

\* Longest Origin header, in tokens.
MaxOriginLen == 2
\* Longest model reply, in tokens, in the request-level specification.
MaxReplyLen == 2
\* Longest model reply, in tokens, in the normalizer specification.
MaxTextLen == 5
\* Longest content of one fenced block in the generated two-block replies.
MaxBlockLen == 2

\* --------------------------------------------------------- JavaScript values

Undefined == [type |-> "undefined", num |-> 0, str |-> <<>>]
JSNull == [type |-> "null", num |-> 0, str |-> <<>>]
JSNum(n) == [type |-> "number", num |-> n, str |-> <<>>]
JSStr(s) == [type |-> "string", num |-> 0, str |-> s]
JSObj == [type |-> "object", num |-> 0, str |-> <<>>]

\* ToBoolean, as used by `!x`, `a || b` and `a && b`.
Truthy(v) ==
  CASE v.type = "undefined" -> FALSE
    [] v.type = "null" -> FALSE
    [] v.type = "number" -> v.num # 0
    [] v.type = "string" -> v.str # <<>>
    [] OTHER -> TRUE

\* a || b
Or(a, b) == IF Truthy(a) THEN a ELSE b

SeqsUpTo(S, n) == UNION {[1..k -> S] : k \in 0..n}

\* Whether `pat` occurs in `s` at index i.
OccursAt(s, pat, i) ==
  /\ i >= 1
  /\ i + Len(pat) - 1 <= Len(s)
  /\ \A j \in 1..Len(pat) : s[i + j - 1] = pat[j]

\* String.prototype.includes
Includes(s, pat) == \E i \in 1..(Len(s) + 1) : OccursAt(s, pat, i)

\* String.prototype.startsWith
StartsWith(s, pat) == OccursAt(s, pat, 1)

\* ------------------------------------------------------------ configuration

LocalOrigin == <<"http://localhost:8000">>
ProdOrigin == <<"https://www.satyajeetnigade.in">>

ALLOWED_ORIGINS == <<LocalOrigin, ProdOrigin>>

\* Line 70 with the arguments of includes exchanged: allowed.includes(origin).
AllowedOriginOfSwapped(origin) ==
  LET hits == {i \in 1..Len(ALLOWED_ORIGINS) : Includes(ALLOWED_ORIGINS[i], origin)}
  IN IF hits = {} THEN JSNull
     ELSE JSStr(ALLOWED_ORIGINS[CHOOSE i \in hits : \A j \in hits : i <= j])

\* Array.prototype.find over ALLOWED_ORIGINS, then `|| null` (line 70).
AllowedOriginOf(origin) ==
  LET hits == {i \in 1..Len(ALLOWED_ORIGINS) : Includes(origin, ALLOWED_ORIGINS[i])}
  IN IF hits = {} THEN JSNull
     ELSE JSStr(ALLOWED_ORIGINS[CHOOSE i \in hits : \A j \in hits : i <= j])

\* ------------------------------------------------------------------- inputs

Methods == {"GET", "POST", "OPTIONS", "PUT", "DELETE"}

\* "http://localhost" is a proper prefix of an allowed entry, ".evil.com" a
\* suffix an attacker appends; neither completes an entry with a neighbour.
OriginTokens ==
  {"http://localhost:8000", "https://www.satyajeetnigade.in", "http://localhost", ".evil.com"}

\* headers.get("Origin"): null when the header is missing.
Origins == {JSNull} \cup {JSStr(s) : s \in SeqsUpTo(OriginTokens, MaxOriginLen)}

ContentTypes ==
  { JSNull,
    JSStr(<<"application/json">>),
    JSStr(<<"application/json", "; charset=utf-8">>),
    JSStr(<<"text/plain">>),
    JSStr(<<"multipart/form-data; boundary=", "application/json">>) }

Base64Values == {Undefined, JSNull, JSStr(<<>>), JSStr(<<"QUJD">>), JSNum(5), JSNum(0)}

MimeValues ==
  { Undefined, JSNull, JSStr(<<>>), JSNum(5),
    JSStr(<<"image/", "png">>), JSStr(<<"image/">>),
    JSStr(<<"application/", "pdf">>), JSStr(<<"application/", "image/">>) }

\* A request body: whether its text is JSON, and if so the parsed root, the
\* root's `image` property and that property's two fields.
Body(valid, root, image, b64, mime) ==
  [valid |-> valid, root |-> root, image |-> image, base64Data |-> b64, mimeType |-> mime]

Bodies ==
  {Body(FALSE, Undefined, Undefined, Undefined, Undefined)}
    \cup {Body(TRUE, r, Undefined, Undefined, Undefined) :
            r \in {JSNull, JSNum(5), JSStr(<<"x">>), JSObj}}
    \cup {Body(TRUE, JSObj, i, Undefined, Undefined) :
            i \in {JSNull, JSNum(5), JSStr(<<"x">>)}}
    \cup {Body(TRUE, JSObj, JSObj, b, m) : b \in Base64Values, m \in MimeValues}

Requests == [method : Methods, origin : Origins, contentType : ContentTypes, body : Bodies]

\* Property access `v.name` on a non-nullish value: only objects carry fields.
ImageOf(body) == IF body.root.type = "object" THEN body.image ELSE Undefined
Base64Of(body) == IF ImageOf(body).type = "object" THEN body.base64Data ELSE Undefined
MimeOf(body) == IF ImageOf(body).type = "object" THEN body.mimeType ELSE Undefined

\* ------------------------------------------------------------ reply texts

\* The token of three backticks (a string literal cannot hold a backtick).
Fence == "<fence>"
JsonLabel == "json"
Newline == "\n"
Quote == "\""

\* "[ 1 ]" and "{}" are complete JSON values, "x" is no JSON at all.
TextTokens == {Fence, JsonLabel, Newline, Quote, "x", "[ 1 ]", "{}"}

IsSpace(c) == c = Newline

Min(S) == CHOOSE x \in S : \A y \in S : x <= y
Max(S) == CHOOSE x \in S : \A y \in S : x >= y

NoMatch == [matched |-> FALSE, group |-> <<>>]

\* The first index from j on that holds no whitespace (Len(t) + 1 if none).
NextNonSpace(t, j) == Min({k \in j..Len(t) : ~IsSpace(t[k])} \cup {Len(t) + 1})

\* Whether \s*``` matches at index e.
ClosesAt(t, e) ==
  LET k == NextNonSpace(t, e) IN k <= Len(t) /\ t[k] = Fence

\* The group of /<opening>\s*([\s\S]*?)\s*```/ matched at index i, as a set:
\* empty when the pattern does not match there.  The leading \s* is greedy
\* and takes the whole run of whitespace (the group accepts any character,
\* so giving whitespace back never turns a failure into a match); the group
\* is lazy and ends at the first index where the rest of the pattern matches.
GroupAt(t, opening, i) ==
  IF ~OccursAt(t, opening, i) THEN {}
  ELSE LET s == NextNonSpace(t, i + Len(opening))
           ends == {e \in s..Len(t) : ClosesAt(t, e)}
       IN IF ends = {} THEN {} ELSE {SubSeq(t, s, Min(ends) - 1)}

\* String.prototype.match without the g flag: the match at the leftmost
\* index where the pattern matches, or null.
RegexMatch(t, opening) ==
  LET starts == {i \in 1..Len(t) : GroupAt(t, opening, i) # {}}
  IN IF starts = {} THEN NoMatch
     ELSE [matched |-> TRUE,
           group |-> CHOOSE g \in GroupAt(t, opening, Min(starts)) : TRUE]

\* Line 159: /```json\s*([\s\S]*?)\s*```/
MatchLabeled(t) == RegexMatch(t, <<Fence, JsonLabel>>)

\* Line 160: /```\s*([\s\S]*?)\s*```/
MatchUnlabeled(t) == RegexMatch(t, <<Fence>>)

\* Lines 159-160: a match array is truthy, null is not.
JsonMatchUnlabeledFirst(t) ==
  IF MatchUnlabeled(t).matched THEN MatchUnlabeled(t) ELSE MatchLabeled(t)

JsonMatch(t) == IF MatchLabeled(t).matched THEN MatchLabeled(t) ELSE MatchUnlabeled(t)

\* JSON whitespace stripped at both ends.
TrimSpace(t) ==
  LET keep == {i \in 1..Len(t) : ~IsSpace(t[i])}
  IN IF keep = {} THEN <<>> ELSE SubSeq(t, Min(keep), Max(keep))

ParseError == [ok |-> FALSE, kind |-> "none", str |-> <<>>]

\* JSON.parse on the token alphabet: one value between optional whitespace.
\* A string literal holds no quote and no raw newline.
JSONParse(t) ==
  LET v == TrimSpace(t)
  IN IF v = <<"[ 1 ]">> THEN [ok |-> TRUE, kind |-> "array", str |-> <<>>]
     ELSE IF v = <<"{}">> THEN [ok |-> TRUE, kind |-> "object", str |-> <<>>]
     ELSE IF /\ Len(v) >= 2
             /\ v[1] = Quote
             /\ v[Len(v)] = Quote
             /\ \A j \in 2..(Len(v) - 1) : v[j] # Quote /\ v[j] # Newline
          THEN [ok |-> TRUE, kind |-> "string", str |-> SubSeq(v, 2, Len(v) - 1)]
     ELSE ParseError

EscapeToken(c) ==
  IF c = Quote THEN "\\\"" ELSE IF c = Newline THEN "\\n" ELSE c

\* JSON.stringify of a string.
QuoteString(s) == <<Quote>> \o [i \in 1..Len(s) |-> EscapeToken(s[i])] \o <<Quote>>

\* JSON.stringify of a parsed value (line 176): no insignificant whitespace.
JSONStringify(v) ==
  CASE v.kind = "array" -> <<"[1]">>
    [] v.kind = "object" -> <<"{}">>
    [] OTHER -> QuoteString(v.str)

ParseErrorText == <<"Could not parse JSON from response">>

\* Lines 170-173.
DiagnosticEnvelopeTrimmed(text) ==
  <<"{", "\"raw_response\":">> \o QuoteString(TrimSpace(text))
    \o <<",", "\"error\":">> \o QuoteString(ParseErrorText) \o <<"}">>

DiagnosticEnvelope(text) ==
  <<"{", "\"raw_response\":">> \o QuoteString(text)
    \o <<",", "\"error\":">> \o QuoteString(ParseErrorText) \o <<"}">>

\* Lines 156-176: the text handed to JSON.parse.
SelectedText(text) ==
  LET jsonMatch == JsonMatch(text)
  IN IF jsonMatch.matched /\ jsonMatch.group # <<>> THEN jsonMatch.group ELSE text

\* The three strategies tried in order, the first text that parses winning.
NormalizeReplyFirstParseWins(text) ==
  LET labeled == MatchLabeled(text)
      unlabeled == MatchUnlabeled(text)
  IN IF labeled.matched /\ JSONParse(labeled.group).ok
       THEN JSONStringify(JSONParse(labeled.group))
     ELSE IF unlabeled.matched /\ JSONParse(unlabeled.group).ok
       THEN JSONStringify(JSONParse(unlabeled.group))
     ELSE IF JSONParse(text).ok THEN JSONStringify(JSONParse(text))
     ELSE DiagnosticEnvelope(text)

\* Lines 156-176: the string processImageWithGemini returns for a reply.
NormalizeReply(text) ==
  LET parsed == JSONParse(SelectedText(text))
  IN IF parsed.ok THEN JSONStringify(parsed) ELSE DiagnosticEnvelope(text)

\* ---------------------------------------------------------------- responses

NoResponse == [status |-> 0, body |-> <<>>, headers |-> {}]
NoReply == [kind |-> "none", text |-> <<>>]

\* new Response(body, { status }) with no headers of the handler's own.
TextResponse(status, body) == [status |-> status, body |-> body, headers |-> {}]

AllowMethods == <<"Access-Control-Allow-Methods", <<"POST, OPTIONS">>>>
AllowHeaders == <<"Access-Control-Allow-Headers", <<"Content-Type, Origin">>>>

\* Lines 187-196: new Response(null, { headers }), status 200 by default.
handleCORSNoMaxAge(origin) ==
  [ status |-> 200,
    body |-> <<>>,
    headers |-> { <<"Access-Control-Allow-Origin", Or(origin, JSStr(<<>>)).str>>,
                  AllowMethods, AllowHeaders } ]

handleCORS(origin) ==
  [ status |-> 200,
    body |-> <<>>,
    headers |-> { <<"Access-Control-Allow-Origin", Or(origin, JSStr(<<>>)).str>>,
                  AllowMethods, AllowHeaders,
                  <<"Access-Control-Max-Age", <<"86400">>>> } ]

\* Lines 111-118: the request's own Origin echoed instead of the matched entry.
SuccessResponseEchoOrigin(result, allowedOrigin) ==
  [ status |-> 200,
    body |-> result,
    headers |-> { <<"Content-Type", <<"application/json">>>>,
                  <<"Access-Control-Allow-Origin", Or(request.origin, JSStr(<<>>)).str>>,
                  AllowMethods, AllowHeaders } ]

\* Lines 111-118.
SuccessResponse(result, allowedOrigin) ==
  [ status |-> 200,
    body |-> result,
    headers |-> { <<"Content-Type", <<"application/json">>>>,
                  <<"Access-Control-Allow-Origin", allowedOrigin.str>>,
                  AllowMethods, AllowHeaders } ]

\* Line 124.
ErrorResponse(message) == TextResponse(500, <<"Error processing request: ">> \o message)

\* Line 179.
GeminiErrorGeneric(message) == <<"Gemini API error">>

GeminiError(message) == <<"Gemini API error: ">> \o message

InvalidFormatText ==
  <<"Invalid request format. Expected: { image: { base64Data: string, mimeType: string } }">>

\* Messages of the errors the runtime throws inside the try block.
JsonSyntaxError == <<"Unexpected token in JSON">>
NullRootTypeError == <<"Cannot read properties of null (reading 'image')">>
StartsWithTypeError == <<"mimeType.startsWith is not a function">>

\* Messages of the failures of the external call.
ErrorMessages == {<<"fetch failed">>, <<"API key not valid">>, <<"quota exceeded">>}

\* ------------------------------------------------------------------ handler

\* Line 73.
IsPreflight(method) == method = "OPTIONS"

\* Line 78.
MethodRejectedExceptGet(method) == method \notin {"POST", "GET"}

MethodRejected(method) == method # "POST"

\* Line 83.
OriginRejected(allowedOrigin) == ~Truthy(allowedOrigin)

\* Line 91.
IsJsonContentType(contentType) == Includes(contentType.str, <<"application/json">>)

\* Line 95.
ShapeInvalid(body) ==
  \/ ~Truthy(ImageOf(body))
  \/ ~Truthy(Base64Of(body))
  \/ ~Truthy(MimeOf(body))

\* Line 103.
IsImageMime(mimeType) == StartsWith(mimeType.str, <<"image/">>)

\* Lines 67 and 70.
RequestOrigin == Or(request.origin, JSStr(<<>>))
RequestAllowedOrigin == AllowedOriginOf(RequestOrigin.str)

Respond(r) == response' = r /\ pc' = "done"

\* Lines 65-92: the handler up to its first await.  request.json() starts
\* reading the body in this stretch.
FetchStart ==
  /\ pc = "start"
  /\ IF IsPreflight(request.method)
       THEN Respond(handleCORS(RequestAllowedOrigin)) /\ UNCHANGED bodyReads
     ELSE IF MethodRejected(request.method)
       THEN Respond(TextResponse(405, <<"Method not allowed">>)) /\ UNCHANGED bodyReads
     ELSE IF OriginRejected(RequestAllowedOrigin)
       THEN Respond(TextResponse(403, <<"Not allowed">>)) /\ UNCHANGED bodyReads
     ELSE IF IsJsonContentType(Or(request.contentType, JSStr(<<>>)))
       THEN pc' = "awaitJson" /\ bodyReads' = bodyReads + 1 /\ UNCHANGED response
     ELSE Respond(TextResponse(400, <<"Request must be application/json">>))
            /\ UNCHANGED bodyReads
  /\ UNCHANGED <<request, calls, reply>>

\* Lines 92-108 and 136-151: request.json() settles; the payload checks; the
\* call of model.generateContent.  Whatever throws here is caught at line 122.
RequestJsonSettles ==
  /\ pc = "awaitJson"
  /\ LET body == request.body
     IN IF ~body.valid
          THEN Respond(ErrorResponse(JsonSyntaxError)) /\ UNCHANGED calls
        ELSE IF body.root.type = "null"
          THEN Respond(ErrorResponse(NullRootTypeError)) /\ UNCHANGED calls
        ELSE IF ShapeInvalid(body)
          THEN Respond(TextResponse(400, InvalidFormatText)) /\ UNCHANGED calls
        ELSE IF MimeOf(body).type # "string"
          THEN Respond(ErrorResponse(StartsWithTypeError)) /\ UNCHANGED calls
        ELSE IF ~IsImageMime(MimeOf(body))
          THEN Respond(TextResponse(400, <<"File must be an image">>)) /\ UNCHANGED calls
        ELSE pc' = "awaitGemini" /\ calls' = calls + 1 /\ UNCHANGED response
  /\ UNCHANGED <<request, bodyReads, reply>>

\* Lines 151-176 and 108-118: the call returns `text`.
GenerateContentResolves(text) ==
  /\ pc = "awaitGemini"
  /\ reply' = [kind |-> "text", text |-> text]
  /\ Respond(SuccessResponse(NormalizeReply(text), RequestAllowedOrigin))
  /\ UNCHANGED <<request, bodyReads, calls>>

\* The call is made again after a failure.
GenerateContentRetries(message) ==
  /\ pc = "awaitGemini"
  /\ calls < 2
  /\ calls' = calls + 1
  /\ UNCHANGED <<request, pc, bodyReads, reply, response>>

\* Lines 151, 177-180 and 122-125: the call throws an Error with `message`.
GenerateContentRejects(message) ==
  /\ pc = "awaitGemini"
  /\ reply' = [kind |-> "error", text |-> message]
  /\ Respond(ErrorResponse(GeminiError(message)))
  /\ UNCHANGED <<request, bodyReads, calls>>

\* ------------------------------------------------------------ specifications

ReplyTexts == SeqsUpTo(TextTokens, MaxReplyLen)

Init ==
  /\ request \in Requests
  /\ pc = "start"
  /\ bodyReads = 0
  /\ calls = 0
  /\ reply = NoReply
  /\ response = NoResponse

Next ==
  \/ FetchStart
  \/ RequestJsonSettles
  \/ pc = "awaitGemini" /\ \E text \in ReplyTexts : GenerateContentResolves(text)
  \/ \E message \in ErrorMessages : GenerateContentRejects(message)

Spec == Init /\ [][Next]_vars

\* The normalizer on long replies: one accepted request, waiting for the
\* external call it has made.
BlockTokens == {Newline, "[ 1 ]", "{}"}
BlockLabels == {<<>>, <<JsonLabel>>}
BlockContents == SeqsUpTo(BlockTokens, MaxBlockLen)
BetweenBlocks == {<<>>, <<Newline>>, <<"x">>, <<JsonLabel>>, <<JsonLabel, "{}">>}

Block(label, content) == <<Fence>> \o label \o content \o <<Fence>>

TwoBlockTexts ==
  { Block(l1, c1) \o mid \o Block(l2, c2) :
      l1 \in BlockLabels, c1 \in BlockContents, mid \in BetweenBlocks,
      l2 \in BlockLabels, c2 \in BlockContents }

NormalizerTexts == SeqsUpTo(TextTokens, MaxTextLen) \cup TwoBlockTexts

AcceptedRequest ==
  [ method |-> "POST",
    origin |-> JSStr(ProdOrigin),
    contentType |-> JSStr(<<"application/json">>),
    body |-> Body(TRUE, JSObj, JSObj, JSStr(<<"QUJD">>), JSStr(<<"image/", "png">>)) ]

InitNormalizer ==
  /\ request = AcceptedRequest
  /\ pc = "awaitGemini"
  /\ bodyReads = 1
  /\ calls = 1
  /\ reply = NoReply
  /\ response = NoResponse

NextNormalizer ==
  \/ pc = "awaitGemini" /\ \E text \in NormalizerTexts : GenerateContentResolves(text)
  \/ \E message \in ErrorMessages : GenerateContentRejects(message)

SpecNormalizer == InitNormalizer /\ [][NextNormalizer]_vars

\* ------------------------------------------------- the request, as sent

\* The Origin header as text ("" when missing).
OriginText == IF request.origin.type = "string" THEN request.origin.str ELSE <<>>

\* The content-type header as text ("" when missing).
ContentTypeText ==
  IF request.contentType.type = "string" THEN request.contentType.str ELSE <<>>

OriginMatches == \E i \in 1..Len(ALLOWED_ORIGINS) : Includes(OriginText, ALLOWED_ORIGINS[i])

ContentTypeIsJson == Includes(ContentTypeText, <<"application/json">>)

HasImageObject ==
  /\ request.body.valid
  /\ request.body.root.type = "object"
  /\ request.body.image.type = "object"

\* A field is present when it holds a value the handler's test `!field`
\* lets through: a non-empty string, a non-zero number, an object.
FieldPresent(v) == Truthy(v)

\* Every check of the Request Gate, read off the request alone.
PassesGate ==
  /\ request.method = "POST"
  /\ OriginMatches
  /\ ContentTypeIsJson
  /\ HasImageObject
  /\ FieldPresent(request.body.base64Data)
  /\ FieldPresent(request.body.mimeType)
  /\ request.body.mimeType.type = "string"
  /\ StartsWith(request.body.mimeType.str, <<"image/">>)

HeaderValues(name) == {h[2] : h \in {g \in response.headers : g[1] = name}}

\* ------------------------------------------------------------------ claims

\* C1: the external generation call is made exactly once for a request that
\* passes every Request Gate check and never for another request; no call is
\* made before the gate has decided, and none is made a second time, also
\* after the first call failed.
C1_CallExactlyOnce ==
  /\ calls <= 1
  /\ pc \in {"start", "awaitJson"} => calls = 0
  /\ pc = "awaitGemini" => calls = 1 /\ PassesGate
  /\ pc = "done" => calls = (IF PassesGate THEN 1 ELSE 0)

C1_Witness ==
  /\ pc = "done"
  /\ PassesGate
  /\ reply.kind = "error"
  /\ calls = 1

\* C2: every client input error on a POST from an allowed origin is answered
\* 400 and never 5xx: a content-type without application/json with "Request
\* must be application/json"; a body that is no JSON, no object, lacks image,
\* image.base64Data or image.mimeType, or holds a non-string in either field
\* with the message naming the expected shape; a mimeType that does not start
\* with "image/" with "File must be an image".
BothFieldsStrings ==
  /\ HasImageObject
  /\ request.body.base64Data.type = "string"
  /\ request.body.mimeType.type = "string"

C2_ClientErrorsAre400 ==
  (pc = "done" /\ request.method = "POST" /\ OriginMatches) =>
    /\ ~ContentTypeIsJson =>
         response = TextResponse(400, <<"Request must be application/json">>)
    /\ (ContentTypeIsJson /\ ~BothFieldsStrings) =>
         response = TextResponse(400, InvalidFormatText)
    /\ ( /\ ContentTypeIsJson
         /\ BothFieldsStrings
         /\ FieldPresent(request.body.base64Data)
         /\ ~StartsWith(request.body.mimeType.str, <<"image/">>) ) =>
         response.status = 400

\* C5: when the external call throws for a request that passed the gate, the
\* request ends with status 500 and the body "Error processing request: "
\* followed by a message that contains the failure's message; the call is
\* not made again and the response is not a 200.
C5_FailureIs500 ==
  reply.kind = "error" =>
    /\ pc = "done"
    /\ PassesGate
    /\ calls = 1
    /\ response.status = 500
    /\ Len(response.body) >= 1
    /\ response.body[1] = "Error processing request: "
    /\ Includes(Tail(response.body), reply.text)

C5_Witness ==
  /\ pc = "done"
  /\ reply = [kind |-> "error", text |-> <<"API key not valid">>]
  /\ response.status = 500

\* C6: a POST whose Origin contains no allow-list entry (a missing Origin
\* included) is answered 403 "Not allowed" whatever its content-type and body,
\* before the body is read and before any external call; an OPTIONS request
\* with such an Origin is not answered 403.
C6_OriginRejectedFirst ==
  /\ (request.method = "POST" /\ ~OriginMatches) =>
       /\ pc \in {"start", "done"}
       /\ bodyReads = 0
       /\ calls = 0
       /\ pc = "done" => response = TextResponse(403, <<"Not allowed">>)
  /\ (request.method = "OPTIONS" /\ ~OriginMatches /\ pc = "done") =>
       response.status # 403

C6_Witness ==
  /\ pc = "done"
  /\ request.method = "POST"
  /\ request.origin = JSStr(<<"http://localhost", ".evil.com">>)
  /\ ContentTypeIsJson
  /\ HasImageObject
  /\ response.status = 403

\* C7: a request whose method is neither POST nor OPTIONS is answered 405
\* with the body "Method not allowed", whatever its Origin, content-type and
\* body; its body is not read and no external call is made.
C7_MethodRejected ==
  request.method \notin {"POST", "OPTIONS"} =>
    /\ pc \in {"start", "done"}
    /\ bodyReads = 0
    /\ calls = 0
    /\ pc = "done" => response = TextResponse(405, <<"Method not allowed">>)

C7_Witness ==
  /\ pc = "done"
  /\ request.method = "GET"
  /\ ~OriginMatches
  /\ ContentTypeIsJson
  /\ response.status = 405

\* C8: every OPTIONS request is answered directly with an empty body and the
\* headers Access-Control-Allow-Methods "POST, OPTIONS", Access-Control-Allow-
\* Headers "Content-Type, Origin" and Access-Control-Max-Age "86400", whatever
\* its body, content-type and Origin; the body is never read and the external
\* call never made.
C8_PreflightAnswered ==
  request.method = "OPTIONS" =>
    /\ pc \in {"start", "done"}
    /\ bodyReads = 0
    /\ calls = 0
    /\ pc = "done" =>
         /\ response.body = <<>>
         /\ HeaderValues("Access-Control-Allow-Methods") = {<<"POST, OPTIONS">>}
         /\ HeaderValues("Access-Control-Allow-Headers") = {<<"Content-Type, Origin">>}
         /\ HeaderValues("Access-Control-Max-Age") = {<<"86400">>}

C8_Witness ==
  /\ pc = "done"
  /\ request.method = "OPTIONS"
  /\ ~OriginMatches
  /\ ContentTypeIsJson
  /\ HasImageObject
  /\ HeaderValues("Access-Control-Max-Age") = {<<"86400">>}

\* C10: on every 200 response to a POST the Access-Control-Allow-Origin
\* header is the first allow-list entry that is a substring of the request's
\* Origin: a member of the allow-list, never empty, and never an Origin value
\* that only contains an entry; so a 200 to a POST exists only for a request
\* whose Origin contains an entry.
C10_AllowOriginIsMatchedEntry ==
  (pc = "done" /\ request.method = "POST" /\ response.status = 200) =>
    /\ OriginMatches
    /\ \E i \in 1..Len(ALLOWED_ORIGINS) :
         /\ HeaderValues("Access-Control-Allow-Origin") = {ALLOWED_ORIGINS[i]}
         /\ ALLOWED_ORIGINS[i] # <<>>
         /\ Includes(OriginText, ALLOWED_ORIGINS[i])
         /\ \A j \in 1..(i - 1) : ~Includes(OriginText, ALLOWED_ORIGINS[j])

C10_Witness ==
  /\ pc = "done"
  /\ request.method = "POST"
  /\ response.status = 200
  /\ OriginText = ProdOrigin \o LocalOrigin
  /\ HeaderValues("Access-Control-Allow-Origin") = {LocalOrigin}

\* --------------------------------------------------- the reply, as received

ReplyReceived == pc = "done" /\ reply.kind = "text"

Parses(t) == JSONParse(t).ok

\* The re-serialized value of a text that parses.
Reserialized(t) == JSONStringify(JSONParse(t))

\* The result of handing text c of reply t to the parser once.
ResultOf(c, t) == IF Parses(c) THEN Reserialized(c) ELSE DiagnosticEnvelope(t)

\* The text the normalizer picks: the content of the first json-labeled
\* fenced span if there is one, else of the first fenced span, and the whole
\* reply when there is no fenced span or the picked content is empty.
PickedText(t) ==
  LET content == IF MatchLabeled(t).matched THEN MatchLabeled(t).group
                 ELSE IF MatchUnlabeled(t).matched THEN MatchUnlabeled(t).group
                 ELSE <<>>
  IN IF content = <<>> THEN t ELSE content

\* C3 as stated: the three strategies are tried in order, a text that fails
\* to parse falls through to the next strategy, and the diagnostic object is
\* returned only when all three fail to parse.
C3_FirstParseWins ==
  ReplyReceived => response.body = NormalizeReplyFirstParseWins(reply.text)

\* C3, amended: the normalizer picks one text (labeled fence content, else
\* unlabeled fence content, else the raw reply; the raw reply also when the
\* picked fence content is empty) and parses it once; it returns the
\* re-serialized value if that text parses and the diagnostic object if it
\* does not, without trying the remaining strategies.
C3_OneTextParsedOnce ==
  ReplyReceived => response.body = ResultOf(PickedText(reply.text), reply.text)

\* A labeled block that does not parse, before which an unlabeled block
\* parses: the diagnostic object is returned.
C3_Witness ==
  /\ ReplyReceived
  /\ MatchLabeled(reply.text).matched
  /\ MatchLabeled(reply.text).group # <<>>
  /\ ~Parses(MatchLabeled(reply.text).group)
  /\ Parses(MatchUnlabeled(reply.text).group)
  /\ response.body = DiagnosticEnvelope(reply.text)

\* No strategy yields a text that parses.
NothingParses(t) ==
  /\ ~Parses(t)
  /\ MatchLabeled(t).matched => ~Parses(MatchLabeled(t).group)
  /\ MatchUnlabeled(t).matched => ~Parses(MatchUnlabeled(t).group)

UnescapeToken(c) ==
  IF c = "\\\"" THEN Quote ELSE IF c = "\\n" THEN Newline ELSE c

EnvelopeTail == <<",", "\"error\":", Quote, "Could not parse JSON from response", Quote, "}">>

\* The body is the serialized object { raw_response: <string>, error: ... }.
IsEnvelope(b) ==
  /\ Len(b) >= 10
  /\ SubSeq(b, 1, 3) = <<"{", "\"raw_response\":", Quote>>
  /\ \A i \in 4..(Len(b) - 7) : b[i] # Quote /\ b[i] # Newline
  /\ b[Len(b) - 6] = Quote
  /\ SubSeq(b, Len(b) - 5, Len(b)) = EnvelopeTail

\* The raw_response field of an envelope, decoded.
RawResponseOf(b) == [i \in 1..(Len(b) - 10) |-> UnescapeToken(b[i + 3])]

\* C4: whenever the external call returns a text, the request ends with
\* status 200 and Content-Type application/json whatever the text is; for a
\* text that cannot be parsed as JSON the body is the diagnostic envelope
\* whose raw_response is the text unchanged and whose error is "Could not
\* parse JSON from response".
C4_ReplyIsAlways200 ==
  ReplyReceived =>
    /\ response.status = 200
    /\ HeaderValues("Content-Type") = {<<"application/json">>}
    /\ NothingParses(reply.text) =>
         /\ IsEnvelope(response.body)
         /\ RawResponseOf(response.body) = reply.text

C4_Witness ==
  /\ ReplyReceived
  /\ NothingParses(reply.text)
  /\ reply.text = <<Newline, Fence, Quote, "x", Newline>>
  /\ response.status = 200
  /\ IsEnvelope(response.body)

\* The fences of a reply, in order, and its two blocks when it has four.
FenceAt(t) == {i \in 1..Len(t) : t[i] = Fence}
NthFence(t, n) == CHOOSE i \in FenceAt(t) : Cardinality({j \in FenceAt(t) : j < i}) = n - 1

HasTwoBlocks(t) == Cardinality(FenceAt(t)) = 4

\* Whether the block opened by the n-th fence carries the json label.
LabeledAt(t, n) ==
  NthFence(t, n) + 1 <= Len(t) /\ t[NthFence(t, n) + 1] = JsonLabel

\* The content of the block between the n-th and the next fence, without
\* its label and the whitespace around it.
ContentAt(t, n) ==
  TrimSpace(SubSeq(t, NthFence(t, n) + (IF LabeledAt(t, n) THEN 2 ELSE 1),
                   NthFence(t, n + 1) - 1))

\* C9 as stated: of two fenced blocks the content of the first is used,
\* whatever the labels of the two blocks.  Stated for blocks with content,
\* where "json" does not directly follow the first block's closing fence.
C9_FirstBlockUsed ==
  ( /\ ReplyReceived
    /\ HasTwoBlocks(reply.text)
    /\ ContentAt(reply.text, 1) # <<>>
    /\ ContentAt(reply.text, 3) # <<>>
    /\ ~LabeledAt(reply.text, 2) ) =>
    response.body = ResultOf(ContentAt(reply.text, 1), reply.text)

\* C9, amended: of two fenced blocks with content, where "json" does not
\* directly follow the first block's closing fence, the first is used when
\* it is json-labeled or when neither is; when only the second is
\* json-labeled, the second is used and the first ignored.
C9_LabeledBlockPreferred ==
  ( /\ ReplyReceived
    /\ HasTwoBlocks(reply.text)
    /\ ContentAt(reply.text, 1) # <<>>
    /\ ContentAt(reply.text, 3) # <<>>
    /\ ~LabeledAt(reply.text, 2) ) =>
    response.body =
      ResultOf(IF ~LabeledAt(reply.text, 1) /\ LabeledAt(reply.text, 3)
                 THEN ContentAt(reply.text, 3)
                 ELSE ContentAt(reply.text, 1),
               reply.text)

\* An unlabeled block followed by a json-labeled one: the second is used.
C9_Witness ==
  /\ ReplyReceived
  /\ reply.text = <<Fence, "[ 1 ]", Fence, Newline, Fence, JsonLabel, Newline, "{}", Fence>>
  /\ response.body = <<"{}">>

====
